---- MODULE Spec2Model ----
(***************************************************************************)
(* create_icons.py: allocate a solid-colour 1024x1024 RGB bitmap, save it  *)
(* as the app icon, resize it to 32x32 and save that as the favicon.       *)
(* The script is straight-line code; its state is the position in the      *)
(* script, the two in-memory bitmaps, standard output, the uncaught        *)
(* exception (if any) and the part of the file system the two saves touch. *)
(*                                                                         *)
(* A bitmap is held losslessly in run-length form: a sequence of row runs  *)
(* [n, px], each standing for n identical consecutive rows whose pixels    *)
(* are the sequence of pixel runs px = <<[n, c], ...>> (n consecutive      *)
(* pixels of colour c = <<r, g, b>>).  Adjacent equal runs are merged, so  *)
(* equal bitmaps have equal representations.                               *)
(***************************************************************************)
EXTENDS Integers, Sequences, FiniteSets, TLC

(* ------------------------------------------------------------------ *)
(* Bounds                                                              *)
(* ------------------------------------------------------------------ *)
\* number of times the script is started one after the other
MaxRuns == 2

(* ------------------------------------------------------------------ *)
(* Program constants                                                   *)
(* ------------------------------------------------------------------ *)
size == 1024

favicon_size == 32

fill_color == <<"#", "f", "5", "9", "e", "0", "b">>

output_path == [dir |-> "AppIcon.appiconset", name |-> "AppIcon-512@2x", ext |-> ".png"]

favicon_path == [dir |-> "public", name |-> "favicon", ext |-> ".png"]

Paths == {output_path, favicon_path}

None == "None"

\* a name that is not bound to a bitmap (yet)
NoImage == [mode |-> "None"]

\* the file at a path: absent, or present with the PNG chunks it holds
NoFile == [exists |-> FALSE, chunks |-> <<>>]

File(chunks) == [exists |-> TRUE, chunks |-> chunks]

(* ------------------------------------------------------------------ *)
(* ImageColor.getrgb: "#rrggbb" -> (r, g, b)                           *)
(* ------------------------------------------------------------------ *)
HexDigits == <<"0", "1", "2", "3", "4", "5", "6", "7", "8", "9", "a", "b", "c", "d", "e", "f">>

HexVal(ch) == (CHOOSE i \in 1..16 : HexDigits[i] = ch) - 1

\* the channels taken in the wrong order
getrgb_bgr(color) ==
    << 16 * HexVal(color[6]) + HexVal(color[7]),
       16 * HexVal(color[4]) + HexVal(color[5]),
       16 * HexVal(color[2]) + HexVal(color[3]) >>

getrgb(color) ==
    << 16 * HexVal(color[2]) + HexVal(color[3]),
       16 * HexVal(color[4]) + HexVal(color[5]),
       16 * HexVal(color[6]) + HexVal(color[7]) >>

(* ------------------------------------------------------------------ *)
(* Bitmaps                                                             *)
(* ------------------------------------------------------------------ *)
RECURSIVE SumN(_)
SumN(runs) == IF runs = <<>> THEN 0 ELSE Head(runs).n + SumN(Tail(runs))

\* the function f as an explicit table (evaluated once, not on every use)
Table(f) == f @@ f

\* merge adjacent runs with equal payload (field "c" or "px")
RECURSIVE MergePxRec(_)
MergePxRec(runs) ==
    IF Len(runs) <= 1 THEN runs
    ELSE LET rest == MergePxRec(Tail(runs))
             h    == Head(runs)
         IN  IF h.c = Head(rest).c
             THEN <<[n |-> h.n + Head(rest).n, c |-> h.c]>> \o Tail(rest)
             ELSE <<h>> \o rest

MergePx(runs) == MergePxRec(Table(runs))

RECURSIVE MergeRowsRec(_)
MergeRowsRec(rows) ==
    IF Len(rows) <= 1 THEN rows
    ELSE LET rest == MergeRowsRec(Tail(rows))
             h    == Head(rows)
         IN  IF h.px = Head(rest).px
             THEN <<[n |-> h.n + Head(rest).n, px |-> h.px]>> \o Tail(rest)
             ELSE <<h>> \o rest

MergeRows(rows) == MergeRowsRec(Table(rows))

\* the colour at position x (0-based) of a sequence of pixel runs
RECURSIVE PxAt(_, _)
PxAt(runs, x) ==
    IF x < Head(runs).n THEN Head(runs).c ELSE PxAt(Tail(runs), x - Head(runs).n)

\* the pixel runs of row y (0-based) of a sequence of row runs
RECURSIVE RowAt(_, _)
RowAt(rows, y) ==
    IF y < Head(rows).n THEN Head(rows).px ELSE RowAt(Tail(rows), y - Head(rows).n)

getpixel(im, x, y) == PxAt(RowAt(im.rows, y), x)

\* Image.new(mode, (w, h), color): every pixel set to the parsed colour
Image_new(mode, w, h, color) ==
    [mode |-> mode, width |-> w, height |-> h,
     rows |-> <<[n |-> h, px |-> <<[n |-> w, c |-> getrgb(color)]>>]>>]

\* the set of colours that occur in a bitmap
Colors(im) ==
    UNION {{im.rows[i].px[j].c : j \in 1..Len(im.rows[i].px)} : i \in 1..Len(im.rows)}

\* the runs cover exactly width x height pixels
WellFormed(im) ==
    /\ SumN(im.rows) = im.height
    /\ \A i \in 1..Len(im.rows) : SumN(im.rows[i].px) = im.width

(* ------------------------------------------------------------------ *)
(* Image.resize                                                        *)
(*                                                                     *)
(* The resampling filter is the library's default: NEAREST in older    *)
(* releases of the imaging library, BICUBIC in newer ones.  BICUBIC    *)
(* is the library's two-pass (horizontal, then vertical) convolution   *)
(* on 8-bit channels with fixed-point coefficients.  The operators     *)
(* below cover reduction by an even integer factor, which is the case  *)
(* of the script (1024 -> 32).                                         *)
(* ------------------------------------------------------------------ *)
PRECISION_BITS == 22

RECURSIVE Pow2(_)
Pow2(k) == IF k = 0 THEN 1 ELSE 2 * Pow2(k - 1)

Abs(v) == IF v < 0 THEN -v ELSE v

Min(a, b) == IF a < b THEN a ELSE b

Max(a, b) == IF a > b THEN a ELSE b

\* bicubic_filter(m / D) with a = -0.5, as a numerator over 2 * D^3
bicubic_filter(m, D) ==
    LET x == Abs(m)
    IN  IF x < D THEN 3 * x * x * x - 5 * D * x * x + 2 * D * D * D
        ELSE IF x < 2 * D
             THEN -(x * x * x - 5 * D * x * x + 8 * D * D * x - 4 * D * D * D)
             ELSE 0

\* floor(num * 2^bits / den) for 0 <= num < den, by binary long division
\* (keeps every intermediate value below 2 * den)
RECURSIVE LongDiv(_, _, _, _)
LongDiv(r, den, bits, q) ==
    IF bits = 0 THEN q
    ELSE IF 2 * r >= den THEN LongDiv(2 * r - den, den, bits - 1, 2 * q + 1)
                         ELSE LongDiv(2 * r, den, bits - 1, 2 * q)

\* normalize_coeffs_8bpc: (int)(+-0.5 + w / ww * 2^PRECISION_BITS)
normalize_coeff(w, ww) ==
    LET mag == (LongDiv(Abs(w), ww, PRECISION_BITS + 1, 0) + 1) \div 2
    IN  IF w < 0 THEN -mag ELSE mag

\* sum of the filter weights over the source positions lo .. hi-1
RECURSIVE SumFilter(_, _, _, _)
SumFilter(lo, hi, center2, D) ==
    IF lo >= hi THEN 0
    ELSE IF hi = lo + 1 THEN bicubic_filter(2 * lo + 1 - center2, D)
    ELSE LET mid == (lo + hi) \div 2
         IN  SumFilter(lo, mid, center2, D) + SumFilter(mid, hi, center2, D)

RECURSIVE SumK(_, _, _)
SumK(k, lo, hi) ==
    IF lo >= hi THEN 0
    ELSE IF hi = lo + 1 THEN k[lo]
    ELSE LET mid == (lo + hi) \div 2
         IN  SumK(k, lo, mid) + SumK(k, mid, hi)

\* the running sums acc, acc + k[lo], ..., acc + k[lo] + ... + k[hi-2]
RECURSIVE Running(_, _, _, _)
Running(k, lo, hi, acc) ==
    IF lo >= hi THEN <<>>
    ELSE IF hi = lo + 1 THEN <<acc>>
    ELSE LET mid == (lo + hi) \div 2
         IN  Running(k, lo, mid, acc) \o Running(k, mid, hi, acc + SumK(k, lo, mid))

\* cum[j] = sum of the first j - 1 fixed-point coefficients of lo .. hi-1
CumCoeffs(lo, hi, center2, D, ww) ==
    LET k == Table([i \in lo..(hi - 1) |->
                normalize_coeff(bicubic_filter(2 * i + 1 - center2, D), ww)])
    IN  Running(k, lo, hi + 1, 0)

\* precompute_coeffs: for each output position xx the window [lo, hi) of
\* source positions and the running sums of its fixed-point coefficients
precompute_coeffs(inSize, outSize) ==
    LET scale   == inSize \div outSize
        support == 2 * scale
        D       == 2 * scale
    IN  Table([xx \in 0..(outSize - 1) |->
            LET center2 == 2 * scale * xx + scale
                v       == scale * xx + (scale \div 2) - support
                lo      == Max(0, IF v >= 0 THEN v ELSE v + 1)
                hi      == Min(inSize, scale * xx + (scale \div 2) + support)
                ww      == SumFilter(lo, hi, center2, D)
            IN  [lo |-> lo, hi |-> hi,
                 cum |-> CumCoeffs(lo, hi, center2, D, ww)]])

\* the coefficient table of the script's resize, computed once
Coeffs == precompute_coeffs(size, favicon_size)

CoeffsFor(inSize, outSize) ==
    IF inSize = size /\ outSize = favicon_size THEN Coeffs
    ELSE precompute_coeffs(inSize, outSize)

\* sum of the coefficients of window kx over source positions a .. b-1
KSum(kx, a, b) ==
    LET lo == Max(a, kx.lo)
        hi == Min(b, kx.hi)
    IN  IF lo >= hi THEN 0 ELSE kx.cum[hi - kx.lo + 1] - kx.cum[lo - kx.lo + 1]

\* clip8: drop the fixed-point fraction and clamp to 0..255
clip8(v) ==
    LET q == v \div Pow2(PRECISION_BITS)
    IN  IF q < 0 THEN 0 ELSE IF q > 255 THEN 255 ELSE q

\* sum over the pixels of a row of coefficient * channel value
RECURSIVE RowDot(_, _, _, _)
RowDot(runs, start, kx, ch) ==
    IF runs = <<>> THEN 0
    ELSE Head(runs).c[ch] * KSum(kx, start, start + Head(runs).n)
         + RowDot(Tail(runs), start + Head(runs).n, kx, ch)

\* the accumulator started at 0 instead of one half: truncation, not rounding
ResampleRow_truncating(runs, kk, outW) ==
    MergePx([xx \in 1..outW |->
        [n |-> 1,
         c |-> [ch \in 1..3 |-> clip8(RowDot(runs, 0, kk[xx - 1], ch))]]])

\* ImagingResampleHorizontal_8bpc on one row
ResampleRow(runs, kk, outW) ==
    MergePx([xx \in 1..outW |->
        [n |-> 1,
         c |-> [ch \in 1..3 |->
                  clip8(Pow2(PRECISION_BITS - 1) + RowDot(runs, 0, kk[xx - 1], ch))]]])

ResampleHorizontal(rows, kk, outW) ==
    MergeRows([i \in 1..Len(rows) |->
        [n |-> rows[i].n, px |-> ResampleRow(rows[i].px, kk, outW)]])

\* sum over the rows of coefficient * channel value at column x
RECURSIVE ColDot(_, _, _, _, _)
ColDot(rows, start, ky, x, ch) ==
    IF rows = <<>> THEN 0
    ELSE PxAt(Head(rows).px, x)[ch] * KSum(ky, start, start + Head(rows).n)
         + ColDot(Tail(rows), start + Head(rows).n, ky, x, ch)

\* ImagingResampleVertical_8bpc
ResampleVertical(rows, kk, outW, outH) ==
    MergeRows([yy \in 1..outH |->
        [n |-> 1,
         px |-> MergePx([xx \in 1..outW |->
                  [n |-> 1,
                   c |-> [ch \in 1..3 |->
                            clip8(Pow2(PRECISION_BITS - 1)
                                  + ColDot(rows, 0, kk[yy - 1], xx - 1, ch))]]])]])

\* nearest neighbour: the source pixel under the centre of the output pixel
ResampleNearest(im, outW, outH) ==
    LET sx == im.width \div outW
        sy == im.height \div outH
    IN  MergeRows([yy \in 1..outH |->
            [n |-> 1,
             px |-> MergePx([xx \in 1..outW |->
                      [n |-> 1,
                       c |-> getpixel(im, sx * (xx - 1) + (sx \div 2),
                                          sy * (yy - 1) + (sy \div 2))]])]])

\* Image.resize((w, h)): a new bitmap; the source is not modified
resize(im, w, h, resample) ==
    IF im.width = w /\ im.height = h THEN im
    ELSE [mode |-> im.mode, width |-> w, height |-> h,
          rows |-> IF resample = "NEAREST"
                   THEN ResampleNearest(im, w, h)
                   ELSE ResampleVertical(
                            ResampleHorizontal(im.rows, CoeffsFor(im.width, w), w),
                            CoeffsFor(im.height, h), w, h)]

(* ------------------------------------------------------------------ *)
(* Image.save                                                          *)
(* ------------------------------------------------------------------ *)
\* the file format registered for a file name extension
format_of(ext) == IF ext = ".png" THEN "PNG" ELSE None

\* PNG colour type of an image mode
color_type(mode) == IF mode = "RGB" THEN 2 ELSE 0

PngEncode(im) ==
    << [type |-> "IHDR", width |-> im.width, height |-> im.height,
        bit_depth |-> 8, color_type |-> color_type(im.mode)],
       [type |-> "IDAT", data |-> im.rows],
       [type |-> "IEND"] >>

\* the bitmap a complete PNG file holds; NoImage for anything else
PngDecode(f) ==
    LET ch == f.chunks
    IN  IF /\ f.exists
           /\ Len(ch) = 3
           /\ ch[1].type = "IHDR" /\ ch[2].type = "IDAT" /\ ch[3].type = "IEND"
        THEN [mode |-> IF ch[1].color_type = 2 THEN "RGB" ELSE "L",
              width |-> ch[1].width, height |-> ch[1].height, rows |-> ch[2].data]
        ELSE NoImage

\* the file truncated before the permission check
open_wb_truncate_first(path, fsfiles, fsdirs) ==
    IF fsdirs[path] \in {"missing_creatable", "missing_uncreatable"}
    THEN [exc |-> "FileNotFoundError", files |-> fsfiles]
    ELSE IF fsdirs[path] = "denied"
    THEN [exc |-> "PermissionError",
          files |-> [fsfiles EXCEPT ![path] = IF @.exists THEN File(<<>>) ELSE @]]
    ELSE [exc |-> None, files |-> [fsfiles EXCEPT ![path] = File(<<>>)]]

\* the file opened for appending: an existing file keeps its contents
open_wb_append(path, fsfiles, fsdirs) ==
    IF fsdirs[path] \in {"missing_creatable", "missing_uncreatable"}
    THEN [exc |-> "FileNotFoundError", files |-> fsfiles]
    ELSE IF fsdirs[path] = "denied"
    THEN [exc |-> "PermissionError", files |-> fsfiles]
    ELSE [exc |-> None,
          files |-> [fsfiles EXCEPT ![path] = File(@.chunks)]]

\* open(path, "w+b"): fails without touching anything when the directory
\* is missing or the process may not write there; otherwise the file is
\* created or truncated
open_wb(path, fsfiles, fsdirs) ==
    IF fsdirs[path] \in {"missing_creatable", "missing_uncreatable"}
    THEN [exc |-> "FileNotFoundError", files |-> fsfiles]
    ELSE IF fsdirs[path] = "denied"
    THEN [exc |-> "PermissionError", files |-> fsfiles]
    ELSE [exc |-> None, files |-> [fsfiles EXCEPT ![path] = File(<<>>)]]

\* im.save(path).  disk = "full" makes the write fail after k chunks; the
\* library then removes the file if this save created it (cleanup), which
\* older releases do not do.
save(im, path, fsfiles, fsdirs, disk, k, cleanup) ==
    IF format_of(path.ext) = None
    THEN [exc |-> "ValueError", files |-> fsfiles]
    ELSE LET created == ~fsfiles[path].exists
             o       == open_wb(path, fsfiles, fsdirs)
         IN  IF o.exc # None THEN o
             ELSE IF disk = "full"
             THEN [exc |-> "OSError",
                   files |-> [o.files EXCEPT ![path] =
                                IF created /\ cleanup THEN NoFile
                                ELSE File(@.chunks \o SubSeq(PngEncode(im), 1, k))]]
             ELSE [exc |-> None,
                   files |-> [o.files EXCEPT ![path] =
                                File(@.chunks \o PngEncode(im))]]

(* ------------------------------------------------------------------ *)
(* State                                                               *)
(* ------------------------------------------------------------------ *)
VARIABLES
    pc,          \* the statement the script is about to run
    img,         \* line 6
    favicon,     \* line 15
    stdout,      \* what the script has printed
    exc,         \* the uncaught exception that ended the run, or None
    files,       \* the file at each output path
    dirs,        \* the state of the directory of each output path
    resample,    \* the default filter of the installed imaging library
    run,         \* how many times the script has been started
    written,     \* history: the paths this run has saved successfully
    attempts,    \* history: how often this run has called save per path
    prior,       \* history: the files when this run started
    last_done    \* history: <<the files the previous run left>> if it succeeded, else <<>>

vars == <<pc, img, favicon, stdout, exc, files, dirs, resample, run,
          written, attempts, prior, last_done>>

env == <<dirs, resample>>

\* a file that something other than this script left at an output path
StaleFile ==
    File(PngEncode([mode |-> "RGB", width |-> 16, height |-> 16,
                    rows |-> <<[n |-> 16, px |-> <<[n |-> 16, c |-> <<0, 0, 0>>]>>]>>]))

DirStates == {"missing_creatable", "missing_uncreatable", "denied", "writable"}

Missing(d) == d \in {"missing_creatable", "missing_uncreatable"}

Init ==
    /\ pc = "new"
    /\ img = NoImage
    /\ favicon = NoImage
    /\ stdout = <<>>
    /\ exc = None
    /\ dirs \in [Paths -> DirStates]
    /\ files \in [Paths -> {NoFile, StaleFile}]
    /\ \A p \in Paths : Missing(dirs[p]) => files[p] = NoFile
    /\ resample \in {"NEAREST", "BICUBIC"}
    /\ run = 1
    /\ written = {}
    /\ attempts = [p \in Paths |-> 0]
    /\ prior = files
    /\ last_done = <<>>

(* ------------------------------------------------------------------ *)
(* The script, statement by statement                                  *)
(* ------------------------------------------------------------------ *)
\* the resize moved before the first save
New_resize_first ==
    /\ pc = "new"
    /\ img' = Image_new("RGB", size, size, fill_color)
    /\ pc' = "resize"
    /\ UNCHANGED <<favicon, stdout, exc, files, env, run, written, attempts,
                   prior, last_done>>

\* line 6: img = Image.new('RGB', (size, size), color='#f59e0b')
New ==
    /\ pc = "new"
    /\ img' = Image_new("RGB", size, size, fill_color)
    /\ pc' = "save1"
    /\ UNCHANGED <<favicon, stdout, exc, files, env, run, written, attempts,
                   prior, last_done>>

\* the exception of the first save caught and ignored
SaveAppIcon_swallow ==
    /\ pc = "save1"
    /\ \E disk \in {"ok", "full"}, k \in 0..2, cleanup \in BOOLEAN :
          LET r == save(img, output_path, files, dirs, disk, k, cleanup)
          IN  /\ files' = r.files
              /\ attempts' = [attempts EXCEPT ![output_path] = @ + 1]
              /\ pc' = "print1"
              /\ written' = IF r.exc = None THEN written \cup {output_path} ELSE written
              /\ exc' = exc
    /\ UNCHANGED <<img, favicon, stdout, env, run, prior, last_done>>

\* the first save tried again after it failed
SaveAppIcon_retry ==
    /\ pc = "save1"
    /\ attempts[output_path] < 3
    /\ \E disk \in {"ok", "full"}, k \in 0..2, cleanup \in BOOLEAN :
          LET r == save(img, output_path, files, dirs, disk, k, cleanup)
          IN  /\ files' = r.files
              /\ attempts' = [attempts EXCEPT ![output_path] = @ + 1]
              /\ IF r.exc = None
                 THEN /\ pc' = "print1"
                      /\ written' = written \cup {output_path}
                 ELSE /\ pc' = "save1"
                      /\ written' = written
              /\ exc' = exc
    /\ UNCHANGED <<img, favicon, stdout, env, run, prior, last_done>>

\* line 10: img.save(output_path); an exception ends the run
SaveAppIcon ==
    /\ pc = "save1"
    /\ \E disk \in {"ok", "full"}, k \in 0..2, cleanup \in BOOLEAN :
          LET r == save(img, output_path, files, dirs, disk, k, cleanup)
          IN  /\ files' = r.files
              /\ attempts' = [attempts EXCEPT ![output_path] = @ + 1]
              /\ IF r.exc = None
                 THEN /\ pc' = "print1"
                      /\ written' = written \cup {output_path}
                      /\ exc' = exc
                 ELSE /\ pc' = "error"
                      /\ written' = written
                      /\ exc' = r.exc
    /\ UNCHANGED <<img, favicon, stdout, env, run, prior, last_done>>

\* line 11: print(f"Created app icon: {output_path}")
PrintAppIcon ==
    /\ pc = "print1"
    /\ stdout' = Append(stdout, <<"Created app icon", output_path>>)
    /\ pc' = "resize"
    /\ UNCHANGED <<img, favicon, exc, files, env, run, written, attempts,
                   prior, last_done>>

\* the source shrunk in place (as Image.thumbnail does)
Resize_in_place ==
    /\ pc = "resize"
    /\ favicon' = resize(img, favicon_size, favicon_size, resample)
    /\ img' = favicon'
    /\ pc' = "save2"
    /\ UNCHANGED <<stdout, exc, files, env, run, written, attempts,
                   prior, last_done>>

\* line 15: favicon = img.resize((32, 32))
Resize ==
    /\ pc = "resize"
    /\ favicon' = resize(img, favicon_size, favicon_size, resample)
    /\ pc' = "save2"
    /\ UNCHANGED <<img, stdout, exc, files, env, run, written, attempts,
                   prior, last_done>>

\* the exception of the second save caught and ignored
SaveFavicon_swallow ==
    /\ pc = "save2"
    /\ \E disk \in {"ok", "full"}, k \in 0..2, cleanup \in BOOLEAN :
          LET r == save(favicon, favicon_path, files, dirs, disk, k, cleanup)
          IN  /\ files' = r.files
              /\ attempts' = [attempts EXCEPT ![favicon_path] = @ + 1]
              /\ pc' = "print2"
              /\ written' = IF r.exc = None THEN written \cup {favicon_path} ELSE written
              /\ exc' = exc
    /\ UNCHANGED <<img, favicon, stdout, env, run, prior, last_done>>

\* line 16: favicon.save(favicon_path); an exception ends the run
SaveFavicon ==
    /\ pc = "save2"
    /\ \E disk \in {"ok", "full"}, k \in 0..2, cleanup \in BOOLEAN :
          LET r == save(favicon, favicon_path, files, dirs, disk, k, cleanup)
          IN  /\ files' = r.files
              /\ attempts' = [attempts EXCEPT ![favicon_path] = @ + 1]
              /\ IF r.exc = None
                 THEN /\ pc' = "print2"
                      /\ written' = written \cup {favicon_path}
                      /\ exc' = exc
                 ELSE /\ pc' = "error"
                      /\ written' = written
                      /\ exc' = r.exc
    /\ UNCHANGED <<img, favicon, stdout, env, run, prior, last_done>>

\* line 17: print(f"Created favicon: {favicon_path}"); the script ends
PrintFavicon ==
    /\ pc = "print2"
    /\ stdout' = Append(stdout, <<"Created favicon", favicon_path>>)
    /\ pc' = "done"
    /\ UNCHANGED <<img, favicon, exc, files, env, run, written, attempts,
                   prior, last_done>>

\* the script is started again after it has ended: a new process, the
\* same file system
Rerun ==
    /\ pc \in {"done", "error"}
    /\ run < MaxRuns
    /\ run' = run + 1
    /\ pc' = "new"
    /\ img' = NoImage
    /\ favicon' = NoImage
    /\ stdout' = <<>>
    /\ exc' = None
    /\ written' = {}
    /\ attempts' = [p \in Paths |-> 0]
    /\ prior' = files
    /\ last_done' = IF pc = "done" THEN <<files>> ELSE <<>>
    /\ UNCHANGED <<files, env>>

Next ==
    \/ New
    \/ SaveAppIcon
    \/ PrintAppIcon
    \/ Resize
    \/ SaveFavicon
    \/ PrintFavicon
    \/ Rerun

Spec == Init /\ [][Next]_vars

TypeOK ==
    /\ pc \in {"new", "save1", "print1", "resize", "save2", "print2", "done", "error"}
    /\ run \in 1..MaxRuns
    /\ written \subseteq Paths

Terminated == pc \in {"done", "error"}

\* the bitmap has the given size and every pixel has the given colour
Uniform(im, w, h, c) ==
    /\ im # NoImage
    /\ im.width = w /\ im.height = h
    /\ WellFormed(im)
    /\ Colors(im) = {c}

(* ------------------------------------------------------------------ *)
(* Properties                                                          *)
(* ------------------------------------------------------------------ *)

\* C1: once the first save of a run has succeeded, the file at the primary
\* output path is a 1024 x 1024 image whose every pixel is (245,158,11);
\* in particular its pixel (0,0) is (245,158,11).
C1_PrimaryIcon ==
    output_path \in written =>
        LET im == PngDecode(files[output_path])
        IN  /\ Uniform(im, 1024, 1024, <<245, 158, 11>>)
            /\ getpixel(im, 0, 0) = <<245, 158, 11>>

C1_Witness == pc = "print1" /\ output_path \in written /\ prior[output_path] = StaleFile

\* C2: once the second save of a run has succeeded, the file at the favicon
\* path is a 32 x 32 image whose every pixel is (245,158,11), whichever
\* resampling filter the resize used.
C2_Favicon ==
    favicon_path \in written =>
        LET im == PngDecode(files[favicon_path])
        IN  /\ Uniform(im, 32, 32, <<245, 158, 11>>)
            /\ getpixel(im, 0, 0) = <<245, 158, 11>>

C2_Witness == pc = "print2" /\ favicon_path \in written /\ resample = "BICUBIC"

\* C3: a save whose destination directory is missing but can be created
\* creates the directory and writes the file (unless the disk is full), so
\* the run does not end with that file absent.
C3_CreatesParentDirs ==
    \A p \in Paths :
        (attempts[p] = 1 /\ dirs[p] = "missing_creatable" /\ exc # "OSError")
            => (p \in written /\ files[p].exists)

\* C4: a save whose destination directory is missing and cannot be created,
\* or where the process may not write, fails with an I/O error that ends the
\* run, and the destination holds what it held before the run: nothing, or
\* the unchanged earlier file.
C4_FailedSaveWritesNothing ==
    \A p \in Paths :
        (attempts[p] >= 1 /\ dirs[p] \in {"missing_uncreatable", "denied"})
            => /\ pc = "error"
               /\ exc \in {"FileNotFoundError", "PermissionError"}
               /\ p \notin written
               /\ files[p] = prior[p]
               /\ (Missing(dirs[p]) => files[p] = NoFile)

C4_Witness ==
    /\ pc = "error"
    /\ attempts[favicon_path] = 1
    /\ dirs[favicon_path] = "denied"
    /\ prior[favicon_path] = StaleFile

\* C5 as stated: a run that has ended never leaves the primary icon newly
\* written while the favicon write failed.
C5_NoPartialSuccess ==
    Terminated => ~(output_path \in written /\ favicon_path \notin written)

\* C5 as amended: a run that has ended either wrote both files and raised
\* nothing, or ended with an exception and did not write the favicon; in the
\* second case the primary icon may have been written and stays written.
\* The favicon is never written by a run that did not write the primary icon.
C5_Outcomes ==
    /\ Terminated =>
          \/ exc = None /\ pc = "done" /\ written = Paths
          \/ exc # None /\ pc = "error" /\ favicon_path \notin written
    /\ written \in {{}, {output_path}, Paths}

C5_Witness == pc = "error" /\ written = {output_path} /\ exc # None

\* C6: a successful run leaves at each output path exactly the encoding of
\* the bitmap it saved there, whatever the path held before, and if the run
\* before it was successful too the files are the same as after that run.
C6_Idempotent ==
    pc = "done" =>
        /\ files[output_path] = File(PngEncode(img))
        /\ files[favicon_path] = File(PngEncode(favicon))
        /\ last_done # <<>> => files = last_done[1]

C6_Witness == pc = "done" /\ run >= 2 /\ last_done # <<>>

\* C7: the statements run in order: the primary icon is written only after
\* the bitmap was allocated, the favicon bitmap is derived only after the
\* primary icon was written, and the favicon file is written only after that.
C7_Order ==
    /\ output_path \in written => img # NoImage
    /\ favicon # NoImage => output_path \in written
    /\ favicon_path \in written => (favicon # NoImage /\ output_path \in written)
    /\ pc \in {"new", "save1"} => (favicon = NoImage /\ written = {})

C7_Witness == favicon_path \in written /\ pc = "print2"

\* C8: when the first save fails the run ends at once with the exception:
\* no resize, no second save, nothing printed; no save is called more than
\* once in a run, and a run that ended with an exception does nothing more.
C8_FailFast ==
    /\ [](/\ (exc # None /\ output_path \notin written) =>
                /\ pc = "error"
                /\ favicon = NoImage
                /\ attempts[favicon_path] = 0
                /\ stdout = <<>>
          /\ (attempts[output_path] >= 1 /\ output_path \notin written) => exc # None
          /\ \A p \in Paths : attempts[p] <= 1)
    /\ [][(pc = "error") => (run' = run + 1)]_vars

C8_Witness ==
    pc = "error" /\ attempts[output_path] = 1 /\ output_path \notin written

\* C9: the resize makes a new bitmap: once the favicon exists the source
\* bitmap is still 1024 x 1024 with every pixel (245,158,11), and neither
\* the resize nor the second save changes the source bitmap or the file at
\* the primary output path.
C9_SourceUnchanged ==
    /\ [](favicon # NoImage => Uniform(img, 1024, 1024, <<245, 158, 11>>))
    /\ [][(pc \in {"resize", "save2"}) =>
            (img' = img /\ files'[output_path] = files[output_path])]_vars

C9_Witness == favicon # NoImage /\ favicon_path \in written /\ favicon # img

\* C10: "Created app icon" is on standard output only if this run has
\* written the primary icon, and "Created favicon" only if it has written
\* both files.
C10_PrintedAfterSave ==
    \A i \in 1..Len(stdout) :
        /\ stdout[i][1] = "Created app icon" => output_path \in written
        /\ stdout[i][1] = "Created favicon" => written = Paths

C10_Witness == Len(stdout) = 2 /\ stdout[2][1] = "Created favicon"
====
